---------------------------- MODULE Spec2Model ----------------------------
(***************************************************************************)
(* Flood inundation mapping: the change-detection core                     *)
(* (src/data/flood_detection.py) and the dashboard statistics              *)
(* (src/service/app.py).                                                   *)
(*                                                                         *)
(* Floating-point samples are records: a finite value, NaN, or +/-Inf,     *)
(* with IEEE-754 subtraction and comparison.  Grids are numpy 2-D arrays:  *)
(* a shape <<rows, cols>> and a function over the cells.                   *)
(***************************************************************************)
EXTENDS Integers, FiniteSets, Sequences, TLC

(* A grid has at most MaxCells cells and no dimension longer than MaxCells. *)
MaxCells == 2

---------------------------------------------------------------------------
(* IEEE-754 values as numpy holds them in a float array *)

Fin(n) == [k |-> "fin", v |-> n]
NaN == [k |-> "nan", v |-> 0]
PosInf == [k |-> "inf", v |-> 1]
NegInf == [k |-> "inf", v |-> -1]

IsNaN(x) == x.k = "nan"

(* position of a non-NaN value on the extended real line *)
Ord(x) == IF x.k = "inf" THEN x.v * 1000000 ELSE x.v

(* x - y *)
FSub(x, y) ==
    IF IsNaN(x) \/ IsNaN(y) THEN NaN
    ELSE IF x.k = "inf" THEN (IF y.k = "inf" /\ y.v = x.v THEN NaN ELSE x)
    ELSE IF y.k = "inf" THEN [k |-> "inf", v |-> 0 - y.v]
    ELSE Fin(x.v - y.v)

(* x > y, x < y, x <= y: every comparison with NaN is false *)
FGt(x, y) == ~IsNaN(x) /\ ~IsNaN(y) /\ Ord(x) > Ord(y)
FLt(x, y) == ~IsNaN(x) /\ ~IsNaN(y) /\ Ord(x) < Ord(y)
FLe(x, y) == ~IsNaN(x) /\ ~IsNaN(y) /\ Ord(x) =< Ord(y)

---------------------------------------------------------------------------
(* numpy arrays *)

Cells(shape) == (1..shape[1]) \X (1..shape[2])

Shapes == {s \in (0..MaxCells) \X (0..MaxCells) : s[1] * s[2] =< MaxCells}

GridsOver(V) ==
    UNION {{[shape |-> s, data |-> d] : d \in [Cells(s) -> V]} : s \in Shapes}

EmptyGrid == [shape |-> <<0, 0>>, data |-> [c \in Cells(<<0, 0>>) |-> 0]]

(* the samples and thresholds the inputs are drawn from *)
Samples == {Fin(0), Fin(1), NaN, PosInf}
Thresholds == {Fin(-1), Fin(0), Fin(1)}

(* numpy broadcasting of two 2-D shapes: a dimension pair is compatible  *)
(* when the lengths are equal or one of them is 1                        *)
DimCompatible(m, n) == m = n \/ m = 1 \/ n = 1
Broadcastable(s, t) == DimCompatible(s[1], t[1]) /\ DimCompatible(s[2], t[2])
BroadcastDim(m, n) == IF m = 1 THEN n ELSE m
BroadcastShape(s, t) == <<BroadcastDim(s[1], t[1]), BroadcastDim(s[2], t[2])>>
(* the cell of grid g that the result cell c reads *)
BroadcastCell(g, c) ==
    <<IF g.shape[1] = 1 THEN 1 ELSE c[1], IF g.shape[2] = 1 THEN 1 ELSE c[2]>>

---------------------------------------------------------------------------
(* change_detection *)

(* dry_image + flood_image in place of the difference *)
ChangeCellSum(d, f) ==
    IF IsNaN(d) \/ IsNaN(f) THEN NaN
    ELSE IF d.k = "inf" THEN (IF f.k = "inf" /\ f.v # d.v THEN NaN ELSE d)
    ELSE IF f.k = "inf" THEN f
    ELSE Fin(d.v + f.v)
(* change = dry_image - flood_image, one cell *)
ChangeCell(d, f) == FSub(d, f)

(* change >= threshold, ~(change <= threshold), change < threshold *)
ClassifyGe(change, threshold) ==
    IF FGt(change, threshold) \/ (~IsNaN(change) /\ change = threshold) THEN 1 ELSE 0
ClassifyNotLe(change, threshold) == IF ~FLe(change, threshold) THEN 1 ELSE 0
ClassifyLt(change, threshold) == IF FLt(change, threshold) THEN 1 ELSE 0
(* (change > threshold).astype(np.uint8), one cell *)
Classify(change, threshold) == IF FGt(change, threshold) THEN 1 ELSE 0

NoResult == [raised |-> "ValueError", flood_mask |-> EmptyGrid, change |-> EmptyGrid]

change_detection(dry, flood, threshold) ==
    IF ~Broadcastable(dry.shape, flood.shape) THEN NoResult
    ELSE
      LET s == BroadcastShape(dry.shape, flood.shape)
          change == [c \in Cells(s) |->
                       ChangeCell(dry.data[BroadcastCell(dry, c)],
                                  flood.data[BroadcastCell(flood, c)])]
      IN [raised |-> "none",
          flood_mask |-> [shape |-> s,
                          data |-> [c \in Cells(s) |-> Classify(change[c], threshold)]],
          change |-> [shape |-> s, data |-> change]]

---------------------------------------------------------------------------
(* calculate_flood_area and load_flood_stats                               *)
(*                                                                         *)
(* Fixed point: angles and cosines are scaled by Scale; transform          *)
(* coefficients are in millionths of the CRS unit; pixel sizes in          *)
(* micrometres; areas in square decimetres.                                *)

Scale == 10 ^ 4
Abs(n) == IF n < 0 THEN 0 - n ELSE n

(* np.radians of an angle given in hundredths of a degree *)
radians(centideg) == (centideg * 31416) \div 18000

(* np.cos, by its Taylor polynomial *)
cos(x) ==
    LET x2 == (x * x) \div Scale
        x4 == (x2 * x2) \div Scale
        x6 == (x4 * x2) \div Scale
    IN Scale - (x2 \div 2) + (x4 \div 24) - (x6 \div 720)

lat_center == 3755
m_per_deg_lat == 111320
NoData == 255

(* np.sin in place of np.cos *)
m_per_deg_lon_sin ==
    LET x == radians(lat_center)
        x2 == (x * x) \div Scale
        x3 == (x2 * x) \div Scale
        x5 == (x3 * x2) \div Scale
    IN (111320 * (x - (x3 \div 6) + (x5 \div 120))) \div Scale
m_per_deg_lon == (111320 * cos(radians(lat_center))) \div Scale

pixel_width_m(transform) == Abs(transform.a) * m_per_deg_lon
pixel_height_m(transform) == Abs(transform.e) * m_per_deg_lat
pixel_area_m2(transform) ==
    (pixel_width_m(transform) \div (10 ^ 5)) * (pixel_height_m(transform) \div (10 ^ 5))

(* np.sum(mask == 1) and mask.size *)
CountOnes(mask) == Cardinality({c \in Cells(mask.shape) : mask.data[c] = 1})
Size(mask) == mask.shape[1] * mask.shape[2]

(* numpy true division of two counts: x / 0 warns and yields nan or inf *)
Quotient(n, d) ==
    IF d = 0 THEN [k |-> IF n = 0 THEN "nan" ELSE "inf", num |-> n, den |-> d]
    ELSE [k |-> "fin", num |-> n, den |-> d]
Zero == [k |-> "fin", num |-> 0, den |-> 1]

NotCalled ==
    [called |-> FALSE, flood_pixels |-> 0, total_pixels |-> 0, flood_ratio |-> Zero,
     pixel_size_m |-> <<0, 0>>, flood_area_m2 |-> 0, flood_area_km2 |-> 0,
     flood_area_ha |-> 0]

(* flood_area_km2 is in millionths of a km2, flood_area_ha in hundredths of a ha *)
calculate_flood_area(mask, tr, crs_arg) ==
    LET flood_pixels == CountOnes(mask)
        total_pixels == Size(mask)
        flood_area_m2 == flood_pixels * pixel_area_m2(tr)
    IN [called |-> TRUE,
        flood_pixels |-> flood_pixels,
        total_pixels |-> total_pixels,
        flood_ratio |-> Quotient(flood_pixels, total_pixels),
        pixel_size_m |-> <<pixel_width_m(tr), pixel_height_m(tr)>>,
        flood_area_m2 |-> flood_area_m2,
        flood_area_km2 |-> flood_area_m2 \div 100,
        flood_area_ha |-> flood_area_m2 \div (10 ^ 4)]

(* flood_mask.tif: absent, or the band and the profile it was written with *)
NoFile == [exists |-> FALSE, mask |-> EmptyGrid, transform |-> [a |-> 0, e |-> 0],
           nodata |-> 0]

NoStats ==
    [called |-> FALSE, none |-> FALSE, flood_pixels |-> 0, total_pixels |-> 0,
     flood_ratio |-> Zero, flood_area_km2 |-> 0, flood_area_ha |-> 0]

load_flood_stats(file) ==
    IF ~file.exists THEN [NoStats EXCEPT !.called = TRUE, !.none = TRUE]
    ELSE
      LET flood_pixels == CountOnes(file.mask)
          total_pixels == Size(file.mask)
          area == pixel_area_m2(file.transform)
      IN [called |-> TRUE, none |-> FALSE,
          flood_pixels |-> flood_pixels,
          total_pixels |-> total_pixels,
          flood_ratio |-> IF total_pixels > 0
                          THEN Quotient(flood_pixels, total_pixels) ELSE Zero,
          flood_area_km2 |-> (flood_pixels * area) \div 100,
          flood_area_ha |-> (flood_pixels * area) \div (10 ^ 4)]

(* the inputs of the statistics *)
MaskValues == {0, 1, NoData}
ScenarioMask == [shape |-> <<10, 10>>, data |-> [c \in Cells(<<10, 10>>) |-> 1]]
StatMasks == GridsOver(MaskValues) \cup {ScenarioMask}
Transforms == {[a |-> 1000, e |-> -1000], [a |-> 2000, e |-> -1000],
               [a |-> 1000, e |-> -2000]}
Geographic == "EPSG:4326"
Projected == "EPSG:32652"
CRSs == {Geographic, Projected}

---------------------------------------------------------------------------
(* mask_to_vector: rasterio.features.shapes traces every connected region   *)
(* of equal-valued cells into one polygon (with holes), 4-connected by      *)
(* default.  A geometry is the set of the upper-left corners, in CRS        *)
(* coordinates (millionths of a unit), of the pixels the polygon covers.    *)
(* The order of the features is not modelled.                               *)

(* a raster read from or written to a GeoTIFF has at least one row and column *)
MaxSide == 3
VectorShapes ==
    {s \in (1..MaxSide) \X (1..MaxSide) : s[1] * s[2] =< 2 * MaxSide}
VectorMasks ==
    UNION {{[shape |-> s, data |-> d] : d \in [Cells(s) -> {0, 1, 255}]} : s \in VectorShapes}

(* north-up affine transforms: x = c + col * a, y = f + row * e *)
GeoTransforms == {[a |-> 1000, e |-> -1000, c |-> 126900000, f |-> 37600000],
                  [a |-> 2000, e |-> -1000, c |-> 126900000, f |-> 37600000]}

(* the corner taken in pixel coordinates, as shapes(mask) without transform= *)
PixelCornerNoTransform(tr, cell) == <<cell[2] - 1, cell[1] - 1>>
(* transform * (col, row) for the upper-left corner of a cell *)
PixelCorner(tr, cell) ==
    <<tr.c + (cell[2] - 1) * tr.a, tr.f + (cell[1] - 1) * tr.e>>

(* connectivity=8: cells sharing an edge or a corner *)
Adjacent8(c, d) ==
    c # d /\ Abs(c[1] - d[1]) =< 1 /\ Abs(c[2] - d[2]) =< 1
(* connectivity=4, the default of shapes: cells sharing an edge *)
Adjacent(c, d) == Abs(c[1] - d[1]) + Abs(c[2] - d[2]) = 1

(* the connected region of equal-valued cells grown from the cells S *)
RECURSIVE Region(_, _)
Region(mask, S) ==
    LET grown == S \cup {c \in Cells(mask.shape) :
                           \E d \in S : /\ Adjacent(c, d)
                                        /\ mask.data[c] = mask.data[d]}
    IN IF grown = S THEN S ELSE Region(mask, grown)

Regions(mask) == {Region(mask, {c}) : c \in Cells(mask.shape)}

(* the (geom, value) pairs of shapes(mask, transform=transform) *)
shapes(mask, tr) ==
    {[geometry |-> {PixelCorner(tr, c) : c \in R},
      flood |-> mask.data[CHOOSE c \in R : TRUE]] : R \in Regions(mask)}

(* no filter on the traced value *)
KeepAny(value) == TRUE
(* if value == 1 *)
KeepFeature(value) == value = 1

NoGdf == [called |-> FALSE, features |-> {}, crs |-> "unset"]

mask_to_vector(mask, tr, crs_arg) ==
    LET results == {r \in shapes(mask, tr) : KeepFeature(r.flood)}
    IN [called |-> TRUE,
        features |-> results,
        crs |-> IF Cardinality(results) > 0 THEN crs_arg ELSE "unset"]

(* always true in place of len(flood_gdf) > 0 *)
HasFeaturesAlways(gdf) == TRUE
(* len(flood_gdf) > 0 *)
HasFeatures(gdf) == Cardinality(gdf.features) > 0

NoVectorFile == [exists |-> FALSE, features |-> {}]

(* load_sar_image, save_flood_mask and the change map written by main *)
main_threshold == Fin(3)
MainSamples == {Fin(-10), Fin(-20)}
RasterGrids == {g \in GridsOver(MainSamples) : Size(g) > 0}
(* the profile settings of the flood raster on disk *)
SourceProfiles == [dtype : {"float32", "float64"}, count : {1}, nodata : {"none", "-9999"}]
NoProfile == [dtype |-> "none", count |-> 0, nodata |-> "none", height |-> 0, width |-> 0]
NoSourceProfile == [dtype |-> "none", count |-> 0, nodata |-> "none"]
NoChangeFile == [exists |-> FALSE, data |-> EmptyGrid, profile |-> NoProfile]

(* profile = src.profile.copy() of a raster with these settings and shape *)
LoadedProfile(source, shape) ==
    [dtype |-> source.dtype, count |-> source.count, nodata |-> source.nodata,
     height |-> shape[1], width |-> shape[2]]

(* the caller's dict after profile.update(dtype=rasterio.uint8, count=1, nodata=255) *)
ProfileAfterSave(prof) ==
    [prof EXCEPT !.dtype = "uint8", !.count = 1, !.nodata = "255"]

(* change_profile = profile.copy(); change_profile.update(dtype=float32, count=1) *)
ChangeProfile(prof) == [prof EXCEPT !.dtype = "float32", !.count = 1]

(* dst.write(array, 1) raises unless the array has the dataset's height and width *)
WriteFits(grid, prof) == grid.shape = <<prof.height, prof.width>>

(* geometry preparation: _to_polygon_only and aoi_geojson_to_geography_wkt.  *)
(* A GeoDataFrame is the sequence of its geometry types; an error message   *)
(* is the sequence of its fixed and formatted pieces.                       *)
MaxFeatures == 2
GeometryTypes == {"Polygon", "MultiPolygon", "LineString", "Point"}
GeoDataFrames == UNION {[1..n -> GeometryTypes] : n \in 0..MaxFeatures}

NoPrepared == [called |-> FALSE, raised |-> "none", message |-> <<>>, types |-> <<>>]

(* gdf[gdf.geometry.type.isin(["Polygon", "MultiPolygon"])] *)
IsPolygonal(type) == type \in {"Polygon", "MultiPolygon"}
PolygonRows(frame) ==
    LET F[i \in 0..Len(frame)] ==
          IF i = 0 THEN <<>>
          ELSE IF IsPolygonal(frame[i]) THEN Append(F[i - 1], frame[i]) ELSE F[i - 1]
    IN F[Len(frame)]

(* the union of the kept rows, exploded: every row of the result is a Polygon *)
to_polygon_only(frame) ==
    IF PolygonRows(frame) = <<>>
    THEN [called |-> TRUE, raised |-> "ValueError",
          message |-> <<"no Polygon / MultiPolygon geometry">>, types |-> <<>>]
    ELSE [called |-> TRUE, raised |-> "none", message |-> <<>>,
          types |-> <<"Polygon">>]

(* the AOI GeoJSON file: absent, or a FeatureCollection, a Feature or a bare *)
(* geometry; geoms are the geometry types of its features ("null" for a      *)
(* feature without geometry), ring the outer ring of the first geometry      *)
Rings == {<<1, 2, 3, 1>>, <<1, 2, 3>>}
AoiDocuments ==
    {[exists |-> FALSE, kind |-> "none", geoms |-> <<>>, ring |-> <<>>]}
    \cup [exists : {TRUE}, kind : {"FeatureCollection"},
          geoms : UNION {[1..n -> GeometryTypes \cup {"null"}] : n \in 0..MaxFeatures},
          ring : Rings]
    \cup [exists : {TRUE}, kind : {"Feature"},
          geoms : [1..1 -> GeometryTypes \cup {"null"}], ring : Rings]
    \cup [exists : {TRUE}, kind : {"Geometry"},
          geoms : [1..1 -> GeometryTypes], ring : Rings]

NoWkt == [called |-> FALSE, raised |-> "none", message |-> <<>>, ring |-> <<>>]
WktRaise(error, msg) ==
    [called |-> TRUE, raised |-> error, message |-> msg, ring |-> <<>>]

aoi_geojson_to_geography_wkt(doc) ==
    IF ~doc.exists THEN WktRaise("FileNotFoundError", <<"no AOI file">>)
    ELSE IF doc.kind = "FeatureCollection" /\ doc.geoms = <<>>
    THEN WktRaise("ValueError", <<"no feature in FeatureCollection">>)
    ELSE
      LET geom == doc.geoms[1]
      IN IF geom = "null" THEN WktRaise("AttributeError", <<"NoneType has no get">>)
         ELSE IF geom # "Polygon"
         THEN WktRaise("ValueError", <<"only Polygon AOI supported. geometry.type=", geom>>)
         ELSE [called |-> TRUE, raised |-> "none", message |-> <<>>,
               ring |-> IF doc.ring[1] # doc.ring[Len(doc.ring)]
                        THEN Append(doc.ring, doc.ring[1]) ELSE doc.ring]

(* download_sentinel1.main: the requests it issues and the warnings it prints *)
MaxProducts == 2
ProductLists == UNION {[1..n -> 1..MaxProducts] : n \in 0..MaxProducts}
(* the last product of the search result in place of the first *)
LastProduct(products) == products[Len(products)]
(* flood_products[0], dry_products[0] *)
FirstProduct(products) == products[1]
Request(op, period, product) == [op |-> op, period |-> period, product |-> product]

MainOrder == <<"load_sar_image", "load_sar_image", "change_detection",
               "calculate_flood_area", "save_flood_mask", "write_change_map",
               "mask_to_vector", "to_file">>
MaskPath == "flood_mask.tif"
ChangePath == "change_map.tif"
VectorPath == "flood_areas.geojson"

---------------------------------------------------------------------------
VARIABLES dry_image, flood_image, detected,
          flood_mask, transform, crs, area_stats, flood_mask_tif, dashboard_stats

(* flood_detection.main: its position, the vector result, the files it writes *)
VARIABLES pc, flood_gdf, flood_areas_geojson, calls, summary
VARIABLES source_profile, profile, change_map_tif

(* geometry preparation: the inputs and the results of the two functions *)
VARIABLES gdf, aoi_geojson, polygon_only, geography_wkt

(* download_sentinel1.main *)
VARIABLES dl_pc, session, flood_products, dry_products, requests, warnings

detect_vars == <<dry_image, flood_image, detected>>
stat_vars == <<flood_mask, transform, crs, area_stats, flood_mask_tif, dashboard_stats>>
pipe_vars == <<pc, flood_gdf, flood_areas_geojson, calls, summary>>
main_vars == <<source_profile, profile, change_map_tif>>
aoi_vars == <<gdf, aoi_geojson, polygon_only, geography_wkt>>
dl_vars == <<dl_pc, session, flood_products, dry_products, requests, warnings>>
side_vars == <<aoi_vars, dl_vars>>
ext_vars == <<pipe_vars, main_vars, side_vars>>
vars == <<detect_vars, stat_vars, ext_vars>>

PipeIdle ==
    /\ pc = "idle"
    /\ flood_gdf = NoGdf
    /\ flood_areas_geojson = NoVectorFile
    /\ calls = <<>>
    /\ summary = {}

MainIdle ==
    /\ source_profile = NoSourceProfile
    /\ profile = NoProfile
    /\ change_map_tif = NoChangeFile

AoiIdle ==
    /\ gdf = <<>>
    /\ aoi_geojson = [exists |-> FALSE, kind |-> "none", geoms |-> <<>>, ring |-> <<>>]
    /\ polygon_only = NoPrepared
    /\ geography_wkt = NoWkt

DlIdle ==
    /\ dl_pc = "idle"
    /\ session = "none"
    /\ flood_products = <<>>
    /\ dry_products = <<>>
    /\ requests = <<>>
    /\ warnings = {}

SideIdle == AoiIdle /\ DlIdle

ExtIdle == PipeIdle /\ MainIdle /\ SideIdle

DetectIdle ==
    /\ dry_image = EmptyGrid
    /\ flood_image = EmptyGrid
    /\ detected = [t \in {} |-> NoResult]

StatIdle ==
    /\ flood_mask = EmptyGrid
    /\ transform = [a |-> 1000, e |-> -1000]
    /\ crs = Geographic
    /\ area_stats = NotCalled
    /\ flood_mask_tif = NoFile
    /\ dashboard_stats = NoStats

Init ==
    /\ dry_image \in GridsOver(Samples)
    /\ flood_image \in GridsOver(Samples)
    /\ detected = [t \in {} |-> NoResult]
    /\ StatIdle
    /\ ExtIdle

(* a call change_detection(dry_image, flood_image, threshold) *)
ChangeDetection ==
    \E threshold \in Thresholds \ DOMAIN detected :
        /\ detected' = [t \in DOMAIN detected \cup {threshold} |->
                          IF t = threshold
                          THEN change_detection(dry_image, flood_image, threshold)
                          ELSE detected[t]]
        /\ UNCHANGED <<dry_image, flood_image, stat_vars, ext_vars>>

Next == ChangeDetection

Spec == Init /\ [][Next]_vars

---------------------------------------------------------------------------
(* the statistics over a mask: computed from the array, saved, read back *)

InitStats ==
    /\ DetectIdle
    /\ flood_mask \in StatMasks
    /\ transform \in Transforms
    /\ crs \in CRSs
    /\ area_stats = NotCalled
    /\ flood_mask_tif = NoFile
    /\ dashboard_stats = NoStats
    /\ ExtIdle

CalculateFloodArea ==
    /\ area_stats' = calculate_flood_area(flood_mask, transform, crs)
    /\ UNCHANGED <<detect_vars, ext_vars, flood_mask, transform, crs, flood_mask_tif,
                   dashboard_stats>>

SaveFloodMask ==
    /\ flood_mask_tif' = [exists |-> TRUE, mask |-> flood_mask,
                          transform |-> transform, nodata |-> NoData]
    /\ UNCHANGED <<detect_vars, ext_vars, flood_mask, transform, crs, area_stats,
                   dashboard_stats>>

LoadFloodStats ==
    /\ dashboard_stats' = load_flood_stats(flood_mask_tif)
    /\ UNCHANGED <<detect_vars, ext_vars, flood_mask, transform, crs, area_stats,
                   flood_mask_tif>>

NextStats == CalculateFloodArea \/ SaveFloodMask \/ LoadFloodStats

SpecStats == InitStats /\ [][NextStats]_vars

---------------------------------------------------------------------------
(* the last steps of flood_detection.main over a mask: vectorize, write the *)
(* vector file when there are polygons, print the summary                   *)

InitVector ==
    /\ DetectIdle
    /\ flood_mask \in VectorMasks
    /\ transform \in GeoTransforms
    /\ crs \in CRSs
    /\ area_stats = NotCalled
    /\ flood_mask_tif = NoFile
    /\ dashboard_stats = NoStats
    /\ pc = "vectorize"
    /\ flood_gdf = NoGdf
    /\ flood_areas_geojson = NoVectorFile
    /\ calls = <<>>
    /\ summary = {}
    /\ MainIdle
    /\ SideIdle

(* flood_gdf = mask_to_vector(flood_mask, transform, crs) *)
MaskToVector ==
    /\ pc = "vectorize"
    /\ flood_gdf' = mask_to_vector(flood_mask, transform, crs)
    /\ calls' = Append(calls, "mask_to_vector")
    /\ pc' = "write_vector"
    /\ UNCHANGED <<side_vars, detect_vars, stat_vars, main_vars, flood_areas_geojson, summary>>

(* if len(flood_gdf) > 0: flood_gdf.to_file(vector_output) else: print *)
WriteVector ==
    /\ pc = "write_vector"
    /\ IF HasFeatures(flood_gdf)
       THEN /\ flood_areas_geojson' = [exists |-> TRUE, features |-> flood_gdf.features]
            /\ calls' = Append(calls, "to_file")
       ELSE UNCHANGED <<side_vars, flood_areas_geojson, calls>>
    /\ pc' = "summary"
    /\ UNCHANGED <<side_vars, detect_vars, stat_vars, main_vars, flood_gdf, summary>>

(* the output files listed at the end of main *)
Summary ==
    /\ pc = "summary"
    /\ summary' = {MaskPath, ChangePath}
                    \cup (IF HasFeatures(flood_gdf) THEN {VectorPath} ELSE {})
    /\ pc' = "done"
    /\ UNCHANGED <<side_vars, detect_vars, stat_vars, main_vars, flood_gdf, flood_areas_geojson, calls>>

NextVector == MaskToVector \/ WriteVector \/ Summary

SpecVector == InitVector /\ [][NextVector]_vars

---------------------------------------------------------------------------
(* flood_detection.main from its first step; it ends with the steps of      *)
(* SpecVector.  An exception leaves main at "failed".                       *)

InitMain ==
    /\ DetectIdle
    /\ StatIdle
    /\ pc = "load"
    /\ flood_gdf = NoGdf
    /\ flood_areas_geojson = NoVectorFile
    /\ calls = <<>>
    /\ summary = {}
    /\ MainIdle
    /\ SideIdle

(* [1/5] the two load_sar_image calls read the rasters on disk *)
Load ==
    /\ pc = "load"
    /\ \E dry \in RasterGrids, flood \in RasterGrids, source \in SourceProfiles,
          tr \in GeoTransforms, c \in CRSs :
          /\ dry_image' = dry
          /\ flood_image' = flood
          /\ source_profile' = source
          /\ profile' = LoadedProfile(source, flood.shape)
          /\ transform' = tr
          /\ crs' = c
    /\ calls' = calls \o <<"load_sar_image", "load_sar_image">>
    /\ pc' = "detect"
    /\ UNCHANGED <<side_vars, detected, flood_mask, area_stats, flood_mask_tif, dashboard_stats,
                   flood_gdf, flood_areas_geojson, summary, change_map_tif>>

(* rasterio.open raises when a raster is missing *)
LoadFails ==
    /\ pc = "load"
    /\ pc' = "failed"
    /\ UNCHANGED <<side_vars, detect_vars, stat_vars, main_vars, flood_gdf, flood_areas_geojson,
                   calls, summary>>

(* [2/5] flood_mask, change_map = change_detection(dry_image, flood_image, 3.0) *)
Detect ==
    /\ pc = "detect"
    /\ LET r == change_detection(dry_image, flood_image, main_threshold)
       IN IF r.raised = "none"
          THEN /\ detected' = [t \in {main_threshold} |-> r]
               /\ flood_mask' = r.flood_mask
               /\ calls' = Append(calls, "change_detection")
               /\ pc' = "statistics"
          ELSE /\ pc' = "failed"
               /\ UNCHANGED <<side_vars, detected, flood_mask, calls>>
    /\ UNCHANGED <<side_vars, dry_image, flood_image, transform, crs, area_stats, flood_mask_tif,
                   dashboard_stats, main_vars, flood_gdf, flood_areas_geojson, summary>>

(* [3/5] area_stats = calculate_flood_area(flood_mask, transform, crs) *)
Statistics ==
    /\ pc = "statistics"
    /\ area_stats' = calculate_flood_area(flood_mask, transform, crs)
    /\ calls' = Append(calls, "calculate_flood_area")
    /\ pc' = "write_mask"
    /\ UNCHANGED <<side_vars, detect_vars, flood_mask, transform, crs, flood_mask_tif,
                   dashboard_stats, main_vars, flood_gdf, flood_areas_geojson, summary>>

(* [4/5] save_flood_mask(flood_mask, flood_meta["profile"], mask_output) *)
WriteMask ==
    /\ pc = "write_mask"
    /\ profile' = ProfileAfterSave(profile)
    /\ IF WriteFits(flood_mask, profile)
       THEN /\ flood_mask_tif' = [exists |-> TRUE, mask |-> flood_mask,
                                  transform |-> transform, nodata |-> NoData]
            /\ calls' = Append(calls, "save_flood_mask")
            /\ pc' = "write_change"
       ELSE /\ pc' = "failed"
            /\ UNCHANGED <<side_vars, flood_mask_tif, calls>>
    /\ UNCHANGED <<side_vars, detect_vars, flood_mask, transform, crs, area_stats, dashboard_stats,
                   source_profile, change_map_tif, flood_gdf, flood_areas_geojson,
                   summary>>

(* the change map written with a copy of the profile *)
WriteChange ==
    /\ pc = "write_change"
    /\ change_map_tif' = [exists |-> TRUE,
                          data |-> detected[main_threshold].change,
                          profile |-> ChangeProfile(profile)]
    /\ calls' = Append(calls, "write_change_map")
    /\ pc' = "vectorize"
    /\ UNCHANGED <<side_vars, detect_vars, stat_vars, source_profile, profile, flood_gdf,
                   flood_areas_geojson, summary>>

NextMain ==
    \/ Load \/ LoadFails \/ Detect \/ Statistics \/ WriteMask \/ WriteChange
    \/ MaskToVector \/ WriteVector \/ Summary

SpecMain == InitMain /\ [][NextMain]_vars

---------------------------------------------------------------------------
(* geometry preparation over a vector layer and an AOI file *)

InitAoi ==
    /\ DetectIdle
    /\ StatIdle
    /\ PipeIdle
    /\ MainIdle
    /\ DlIdle
    /\ gdf \in GeoDataFrames
    /\ aoi_geojson \in AoiDocuments
    /\ polygon_only = NoPrepared
    /\ geography_wkt = NoWkt

ToPolygonOnly ==
    /\ polygon_only' = to_polygon_only(gdf)
    /\ UNCHANGED <<detect_vars, stat_vars, pipe_vars, main_vars, dl_vars,
                   gdf, aoi_geojson, geography_wkt>>

AoiGeojsonToGeographyWkt ==
    /\ geography_wkt' = aoi_geojson_to_geography_wkt(aoi_geojson)
    /\ UNCHANGED <<detect_vars, stat_vars, pipe_vars, main_vars, dl_vars,
                   gdf, aoi_geojson, polygon_only>>

NextAoi == ToPolygonOnly \/ AoiGeojsonToGeographyWkt

SpecAoi == InitAoi /\ [][NextAoi]_vars

---------------------------------------------------------------------------
(* download_sentinel1.main: session, AOI, flood search and download, dry    *)
(* search and download.  requests is the sequence of HTTP requests issued;  *)
(* an exception leaves main at "failed".                                    *)

InitDownload ==
    /\ DetectIdle
    /\ StatIdle
    /\ PipeIdle
    /\ MainIdle
    /\ gdf = <<>>
    /\ aoi_geojson \in AoiDocuments
    /\ polygon_only = NoPrepared
    /\ geography_wkt = NoWkt
    /\ dl_pc = "session"
    /\ session = "none"
    /\ flood_products = <<>>
    /\ dry_products = <<>>
    /\ requests = <<>>
    /\ warnings = {}

(* session = get_session(): credentials from the environment, then the token request *)
GetSession ==
    /\ dl_pc = "session"
    /\ \E outcome \in {"no_credentials", "http_error", "no_access_token", "token"} :
          /\ requests' = IF outcome = "no_credentials" THEN requests
                         ELSE Append(requests, Request("token", "none", 0))
          /\ session' = IF outcome = "token" THEN "Bearer" ELSE session
          /\ dl_pc' = IF outcome = "token" THEN "aoi" ELSE "failed"
    /\ UNCHANGED <<detect_vars, stat_vars, pipe_vars, main_vars, aoi_vars,
                   flood_products, dry_products, warnings>>

(* aoi_geog = aoi_geojson_to_geography_wkt(AOI_SEOUL_HANGANG_2KM) *)
AoiGeography ==
    /\ dl_pc = "aoi"
    /\ geography_wkt' = aoi_geojson_to_geography_wkt(aoi_geojson)
    /\ dl_pc' = IF geography_wkt'.raised = "none" THEN "search_flood" ELSE "failed"
    /\ UNCHANGED <<detect_vars, stat_vars, pipe_vars, main_vars, gdf, aoi_geojson,
                   polygon_only, session, flood_products, dry_products, requests,
                   warnings>>

(* flood_products = search_s1_grd(session, ...) over the flood period *)
SearchFlood ==
    /\ dl_pc = "search_flood"
    /\ requests' = Append(requests, Request("search", "flood", 0))
    /\ \/ /\ dl_pc' = "failed"
          /\ UNCHANGED flood_products
       \/ \E value \in ProductLists :
             /\ flood_products' = value
             /\ dl_pc' = "download_flood"
    /\ UNCHANGED <<detect_vars, stat_vars, pipe_vars, main_vars, aoi_vars,
                   session, dry_products, warnings>>

(* if not flood_products: warn, else download flood_products[0] *)
DownloadFlood ==
    /\ dl_pc = "download_flood"
    /\ IF flood_products = <<>>
       THEN /\ warnings' = warnings \cup {"flood"}
            /\ dl_pc' = "search_dry"
            /\ UNCHANGED requests
       ELSE /\ requests' = Append(requests,
                             Request("download", "flood", FirstProduct(flood_products)))
            /\ dl_pc' \in {"search_dry", "failed"}
            /\ UNCHANGED warnings
    /\ UNCHANGED <<detect_vars, stat_vars, pipe_vars, main_vars, aoi_vars,
                   session, flood_products, dry_products>>

(* dry_products = search_s1_grd(session, ...) over the dry period *)
SearchDry ==
    /\ dl_pc = "search_dry"
    /\ requests' = Append(requests, Request("search", "dry", 0))
    /\ \/ /\ dl_pc' = "failed"
          /\ UNCHANGED dry_products
       \/ \E value \in ProductLists :
             /\ dry_products' = value
             /\ dl_pc' = "download_dry"
    /\ UNCHANGED <<detect_vars, stat_vars, pipe_vars, main_vars, aoi_vars,
                   session, flood_products, warnings>>

(* if not dry_products: warn, else download dry_products[0] *)
DownloadDry ==
    /\ dl_pc = "download_dry"
    /\ IF dry_products = <<>>
       THEN /\ warnings' = warnings \cup {"dry"}
            /\ dl_pc' = "done"
            /\ UNCHANGED requests
       ELSE /\ requests' = Append(requests,
                             Request("download", "dry", FirstProduct(dry_products)))
            /\ dl_pc' \in {"done", "failed"}
            /\ UNCHANGED warnings
    /\ UNCHANGED <<detect_vars, stat_vars, pipe_vars, main_vars, aoi_vars,
                   session, flood_products, dry_products>>

NextDownload ==
    \/ GetSession \/ AoiGeography \/ SearchFlood \/ DownloadFlood
    \/ SearchDry \/ DownloadDry

SpecDownload == InitDownload /\ [][NextDownload]_vars

---------------------------------------------------------------------------
(* Properties of change_detection (specification Spec) *)

SameShape == dry_image.shape = flood_image.shape
Positives(mask) == {c \in Cells(mask.shape) : mask.data[c] = 1}

C2_ShapeMismatchRaises ==
    \A t \in DOMAIN detected :
        ~SameShape => detected[t].raised = "ValueError"

(* C3: wherever the dry or the flood cell read for a result cell is NaN,    *)
(* the change is NaN and the mask is 0, at every threshold; mask cells are  *)
(* only ever 0 or 1.                                                        *)
C3_NaNClassifiesZero ==
    \A t \in DOMAIN detected :
        LET r == detected[t] IN
        r.raised = "none" =>
            \A c \in Cells(r.flood_mask.shape) :
                /\ r.flood_mask.data[c] \in {0, 1}
                /\ (\/ IsNaN(dry_image.data[BroadcastCell(dry_image, c)])
                    \/ IsNaN(flood_image.data[BroadcastCell(flood_image, c)]))
                   => /\ IsNaN(r.change.data[c])
                      /\ r.flood_mask.data[c] = 0

(* a call at the lowest threshold with a NaN input cell next to a positive cell *)
C3_Witness ==
    /\ Fin(-1) \in DOMAIN detected
    /\ detected[Fin(-1)].raised = "none"
    /\ SameShape
    /\ \E c1, c2 \in Cells(dry_image.shape) :
          /\ IsNaN(dry_image.data[c1])
          /\ detected[Fin(-1)].flood_mask.data[c1] = 0
          /\ detected[Fin(-1)].flood_mask.data[c2] = 1

(* C4: for the same grids and thresholds t1 <= t2, the positive cells at t2 *)
(* are among the positive cells at t1, so the count at t2 is not larger.    *)
C4_ThresholdMonotone ==
    \A t1, t2 \in DOMAIN detected :
        (FLe(t1, t2) /\ detected[t1].raised = "none") =>
            /\ Positives(detected[t2].flood_mask) \subseteq Positives(detected[t1].flood_mask)
            /\ Cardinality(Positives(detected[t2].flood_mask))
                 =< Cardinality(Positives(detected[t1].flood_mask))

(* two calls whose higher threshold keeps one positive cell and drops another *)
C4_Witness ==
    \E t1, t2 \in DOMAIN detected :
        /\ FLt(t1, t2)
        /\ Positives(detected[t2].flood_mask) # {}
        /\ Positives(detected[t2].flood_mask) # Positives(detected[t1].flood_mask)

(* C5: when dry and flood are the same grid, the mask is 0 in every cell at *)
(* every threshold greater than 0.                                          *)
C5_EqualGridsAllZero ==
    \A t \in DOMAIN detected :
        (dry_image = flood_image /\ FGt(t, Fin(0))) =>
            /\ detected[t].raised = "none"
            /\ detected[t].flood_mask.shape = dry_image.shape
            /\ Positives(detected[t].flood_mask) = {}

(* equal two-cell grids holding a non-zero finite sample, detected at threshold 1 *)
C5_Witness ==
    /\ dry_image = flood_image
    /\ Fin(1) \in DOMAIN detected
    /\ Cardinality(Cells(detected[Fin(1)].flood_mask.shape)) = 2
    /\ \E c \in Cells(dry_image.shape) : dry_image.data[c] = Fin(1)

---------------------------------------------------------------------------
(* Properties of the statistics (specification SpecStats) *)

IsZeroRatio(q) == q.k = "fin" /\ q.num = 0
ValidCells(mask) == {c \in Cells(mask.shape) : mask.data[c] \in {0, 1}}
(* value v is within one percent of the reference ref *)
WithinOnePercent(v, ref) == Abs(v - ref) * 100 =< ref

(* C6: over a mask with zero cells, calculate_flood_area and                *)
(* load_flood_stats both return a flood ratio of exactly 0, a number.       *)
C6_EmptyMaskRatioZero ==
    /\ (area_stats.called /\ Size(flood_mask) = 0)
          => IsZeroRatio(area_stats.flood_ratio)
    /\ (dashboard_stats.called /\ ~dashboard_stats.none /\ Size(flood_mask_tif.mask) = 0)
          => IsZeroRatio(dashboard_stats.flood_ratio)

(* C7: over a mask with no cell equal to 1, of any shape and transform,     *)
(* calculate_flood_area returns flood_pixels 0, flood_ratio 0.0 and         *)
(* flood_area_km2 0.0.                                                      *)
C7_AllZeroMaskZeroStats ==
    (area_stats.called /\ \A c \in Cells(flood_mask.shape) : flood_mask.data[c] = 0)
        => /\ area_stats.flood_pixels = 0
           /\ IsZeroRatio(area_stats.flood_ratio)
           /\ area_stats.flood_area_km2 = 0

(* C8: cells holding the no-data value 255 count neither as positive nor in *)
(* the total: the flood ratio is the positive cells over the valid cells.   *)
C8_NoDataExcluded ==
    /\ (area_stats.called /\ ValidCells(flood_mask) # {}) =>
          /\ area_stats.flood_pixels = Cardinality(Positives(flood_mask))
          /\ area_stats.flood_ratio.k = "fin"
          /\ area_stats.flood_ratio.num * Cardinality(ValidCells(flood_mask))
               = Cardinality(Positives(flood_mask)) * area_stats.flood_ratio.den
    /\ (dashboard_stats.called /\ ~dashboard_stats.none
          /\ ValidCells(flood_mask_tif.mask) # {}) =>
          /\ dashboard_stats.flood_pixels = Cardinality(Positives(flood_mask_tif.mask))
          /\ dashboard_stats.flood_ratio.k = "fin"
          /\ dashboard_stats.flood_ratio.num * Cardinality(ValidCells(flood_mask_tif.mask))
               = Cardinality(Positives(flood_mask_tif.mask)) * dashboard_stats.flood_ratio.den

(* the pixel area, in dm2, of the pixel size calculate_flood_area returned *)
ReturnedPixelArea == (area_stats.pixel_size_m[1] \div (10 ^ 5))
                       * (area_stats.pixel_size_m[2] \div (10 ^ 5))
ScenarioCall ==
    /\ area_stats.called
    /\ crs = Geographic
    /\ transform = [a |-> 1000, e |-> -1000]

C10_ProjectedUsesPixelSize ==
    (area_stats.called /\ crs = Projected) =>
        area_stats.pixel_size_m = <<Abs(transform.a), Abs(transform.e)>>

---------------------------------------------------------------------------
(* Properties of mask_to_vector and the end of main (specification SpecVector) *)

(* the raster cells a geometry covers when rasterized on the mask's grid *)
(* with the mask's transform                                             *)
CoveredCells(geometry) ==
    {c \in Cells(flood_mask.shape) :
        <<transform.c + (c[2] - 1) * transform.a,
          transform.f + (c[1] - 1) * transform.e>> \in geometry}
EdgeAdjacent(c, d) ==
    \/ (c[1] = d[1] /\ (c[2] = d[2] + 1 \/ d[2] = c[2] + 1))
    \/ (c[2] = d[2] /\ (c[1] = d[1] + 1 \/ d[1] = c[1] + 1))
CornerAdjacent(c, d) ==
    /\ (c[1] = d[1] + 1 \/ d[1] = c[1] + 1)
    /\ (c[2] = d[2] + 1 \/ d[2] = c[2] + 1)
NoPositiveCell == \A c \in Cells(flood_mask.shape) : flood_mask.data[c] # 1

C12_PolygonsCoverExactlyPositives ==
    flood_gdf.called =>
        /\ \A r \in flood_gdf.features : r.flood = 1
        /\ UNION {CoveredCells(r.geometry) : r \in flood_gdf.features}
             = {c \in Cells(flood_mask.shape) : flood_mask.data[c] = 1}
        /\ \A r \in flood_gdf.features :
             Cardinality(CoveredCells(r.geometry)) = Cardinality(r.geometry)

(* a vectorized mask holding flooded, dry and no-data cells *)
C12_Witness ==
    /\ flood_gdf.called
    /\ Cardinality(flood_gdf.features) >= 1
    /\ \E c1, c2, c3 \in Cells(flood_mask.shape) :
          /\ flood_mask.data[c1] = 1
          /\ flood_mask.data[c2] = 0
          /\ flood_mask.data[c3] = 255

(* C13: there is exactly one polygon per 4-connected region of cells equal  *)
(* to 1: every positive cell is in exactly one polygon, edge-adjacent       *)
(* positive cells share a polygon, and every polygon is connected through   *)
(* shared edges (a polygon never splits into two parts that touch only at   *)
(* corners or not at all).                                                  *)
C13_OnePolygonPerFourConnectedRegion ==
    flood_gdf.called =>
        LET P == {c \in Cells(flood_mask.shape) : flood_mask.data[c] = 1}
            Polys == {CoveredCells(r.geometry) : r \in flood_gdf.features}
        IN /\ Cardinality(Polys) = Cardinality(flood_gdf.features)
           /\ \A c \in P : Cardinality({Q \in Polys : c \in Q}) = 1
           /\ \A c, d \in P :
                EdgeAdjacent(c, d) => \E Q \in Polys : c \in Q /\ d \in Q
           /\ \A Q \in Polys :
                /\ Q # {}
                /\ \A S \in SUBSET Q :
                     (S # {} /\ S # Q) =>
                        \E c \in S, d \in Q \ S : EdgeAdjacent(c, d)

(* two polygons that touch only at a corner, one of them of several cells *)
C13_Witness ==
    /\ flood_gdf.called
    /\ \E r1, r2 \in flood_gdf.features :
          /\ r1 # r2
          /\ Cardinality(r1.geometry) >= 2
          /\ \E c \in CoveredCells(r1.geometry), d \in CoveredCells(r2.geometry) :
                CornerAdjacent(c, d)

---------------------------------------------------------------------------
(* Properties of flood_detection.main (specification SpecMain) *)

IsPrefix(s, t) == Len(s) =< Len(t) /\ \A i \in 1..Len(s) : s[i] = t[i]

(* C15: after save_flood_mask has returned, the profile the caller passed   *)
(* in still holds the source raster's settings, and the profile the change  *)
(* map is written with is the source raster's plus dtype float32 and        *)
(* count 1, with the source's nodata and not 255.                           *)
C15_ProfileUnchangedBySave ==
    /\ flood_mask_tif.exists =>
          /\ profile.dtype = source_profile.dtype
          /\ profile.count = source_profile.count
          /\ profile.nodata = source_profile.nodata
    /\ change_map_tif.exists =>
          /\ change_map_tif.profile.dtype = "float32"
          /\ change_map_tif.profile.count = 1
          /\ change_map_tif.profile.nodata = source_profile.nodata

(* C16: the completed steps of main are, in this order, load (twice),       *)
(* detect, statistics, write mask, write change, vectorize and then         *)
(* possibly the vector write; once the vector step is over the GeoJSON      *)
(* file exists exactly when the polygon set is non-empty, the summary names *)
(* it exactly in that case, and no step from the vectorization on fails.    *)
C16_StepOrderAndVectorIff ==
    /\ IsPrefix(calls, MainOrder)
    /\ flood_areas_geojson.exists <=> (Len(calls) = Len(MainOrder))
    /\ pc \in {"summary", "done"} =>
          /\ flood_areas_geojson.exists <=> (flood_gdf.features # {})
          /\ flood_gdf.features = {} <=>
                (\A c \in Cells(flood_mask.shape) : flood_mask.data[c] # 1)
    /\ pc = "done" =>
          /\ Len(calls) >= Len(MainOrder) - 1
          /\ (VectorPath \in summary) <=> flood_areas_geojson.exists
          /\ {MaskPath, ChangePath} \subseteq summary
    /\ pc # "done" => summary = {}
    /\ pc = "failed" => Len(calls) =< 4

(* a run with no flooded pixel that reached its end without a vector file *)
C16_Witness ==
    /\ pc = "done"
    /\ Len(calls) = 7
    /\ area_stats.flood_pixels = 0
    /\ ~flood_areas_geojson.exists

(* a run with flooded pixels that wrote and listed the vector file *)
C16_WitnessFlooded ==
    /\ pc = "done"
    /\ Len(calls) = 8
    /\ area_stats.flood_pixels > 0
    /\ flood_areas_geojson.exists
    /\ VectorPath \in summary

---------------------------------------------------------------------------
(* Properties of the geometry preparation (specification SpecAoi) *)

Names(message, type) == \E i \in 1..Len(message) : message[i] = type

(* C14: when the input holds no geometry of the expected kind, the          *)
(* preparation fails with an error whose message names a geometry type      *)
(* that was found: _to_polygon_only over a layer without Polygon or         *)
(* MultiPolygon, aoi_geojson_to_geography_wkt over a file without Polygon.  *)
C14_ErrorNamesFoundType ==
    /\ (/\ polygon_only.called
        /\ gdf # <<>>
        /\ \A i \in 1..Len(gdf) : gdf[i] \notin {"Polygon", "MultiPolygon"})
          => /\ polygon_only.raised = "ValueError"
             /\ \E i \in 1..Len(gdf) : Names(polygon_only.message, gdf[i])
    /\ (/\ geography_wkt.called
        /\ aoi_geojson.exists
        /\ aoi_geojson.geoms # <<>>
        /\ \A i \in 1..Len(aoi_geojson.geoms) :
              aoi_geojson.geoms[i] \notin {"Polygon", "null"})
          => /\ geography_wkt.raised = "ValueError"
             /\ \E i \in 1..Len(aoi_geojson.geoms) :
                   Names(geography_wkt.message, aoi_geojson.geoms[i])

---------------------------------------------------------------------------
(* Properties of download_sentinel1.main (specification SpecDownload) *)

Issued(op, period) ==
    \E i \in 1..Len(requests) : requests[i].op = op /\ requests[i].period = period
ProductsOf(period) == IF period = "flood" THEN flood_products ELSE dry_products

(* C17: every search and download comes after the token request that gave   *)
(* the session; the dry search comes after the flood search; a download     *)
(* directly follows the search of its own period, that search returned at   *)
(* least one product and the download is for the first of them; an empty    *)
(* flood result only adds a warning, and main goes on to the dry search.    *)
C17_DownloadSequence ==
    /\ \A i \in 1..Len(requests) :
          requests[i].op # "token" =>
             /\ i > 1
             /\ requests[1].op = "token"
             /\ session # "none"
    /\ \A i \in 1..Len(requests) :
          (requests[i].op = "search" /\ requests[i].period = "dry") =>
             \E j \in 1..(i - 1) :
                requests[j].op = "search" /\ requests[j].period = "flood"
    /\ \A i \in 1..Len(requests) :
          requests[i].op = "download" =>
             /\ i > 1
             /\ requests[i - 1] = Request("search", requests[i].period, 0)
             /\ ProductsOf(requests[i].period) # <<>>
             /\ requests[i].product = ProductsOf(requests[i].period)[1]
    /\ "flood" \in warnings =>
          /\ flood_products = <<>>
          /\ ~Issued("download", "flood")
          /\ dl_pc \in {"search_dry", "download_dry", "done", "failed"}
          /\ dl_pc \in {"download_dry", "done", "failed"} => Issued("search", "dry")
    /\ (dl_pc = "done" /\ dry_products # <<>>) => Issued("download", "dry")

(* no flood product was found, and the dry download took the first of two *)
(* different products                                                     *)
C17_Witness ==
    /\ dl_pc = "done"
    /\ "flood" \in warnings
    /\ Len(dry_products) = 2
    /\ dry_products[1] # dry_products[2]
    /\ Issued("download", "dry")

=============================================================================
